---- MODULE Spec2Model ----
(***************************************************************************)
(* Goldwasser-Micali cryptosystem (goldwasser_micali.py) and the 16-bit    *)
(* secret comparison protocol built on it (secure_comparison_16bit.py).    *)
(*                                                                         *)
(* Python lists are 0-based, TLA+ sequences 1-based: a_bits[k] of the      *)
(* source is a_bits[k+1] here.  Python's None is the string "None".        *)
(* Every call of the random module is a nondeterministic choice.           *)
(***************************************************************************)
EXTENDS Integers, Sequences, FiniteSets, TLC

None == "None"

(***************************************************************************)
(* Bounds of the model.                                                    *)
(***************************************************************************)
\* a random range of at most this many values above its low end is
\* enumerated in full; a larger one is sampled
FullRange == 127
\* the sample of a large getrandbits range is 0..MaxDraw (and 91)
MaxDraw == 6
\* the blinding factors run_protocol's encryptions draw are sampled from
\* 1..MaxBlind
MaxBlind == 2
\* generate_keys alone is run for key_size in MinKeySize..MaxKeySize; with
\* a smaller key_size no candidate of generate_large_prime_3mod4 fits in
\* key_size // 2 bits
MinKeySize == 4
MaxKeySize == 14
\* under the fair random module, for key_size in MinKeySize..MaxFairKeySize
MaxFairKeySize == 11
\* the operands of run_protocol: -1..MaxSmall, the top of the range, 2^16
MaxSmall == 1
\* the bit-level tests run with keys of primes up to MaxPrime
MaxPrime == 11
\* batch_encrypt_bits is given lists of at most MaxBits bits
MaxBits == 2
\* the blinding factors of the 32 encryptions of encrypt_32bit_int repeat
\* with this period
TapePeriod == 2
\* jacobi_symbol(a, n) and legendre_symbol(a, n) are called with a in
\* -MaxA..MaxA and n in 1..MaxN
MaxA == 60
MaxN == 45

(***************************************************************************)
(* Program constants.                                                      *)
(***************************************************************************)
DefaultKeySize == 32
MillerRabinRounds == 5
W == 16

(***************************************************************************)
(* Arithmetic of the Python built-ins the program uses.                    *)
(***************************************************************************)
Min(x, y) == IF x <= y THEN x ELSE y

\* pow(base, e, m) for e >= 0, m > 0
RECURSIVE pow_mod(_, _, _)
pow_mod(base, e, m) ==
    IF e = 0 THEN 1 % m
    ELSE LET h == pow_mod(base, e \div 2, m)
             sq == (h * h) % m
         IN IF e % 2 = 1 THEN (sq * (base % m)) % m ELSE sq

\* math.gcd
RECURSIVE gcd(_, _)
gcd(x, y) == IF y = 0 THEN x ELSE gcd(y, x % y)

\* int.bit_length
RECURSIVE bit_length(_)
bit_length(x) == IF x = 0 THEN 0 ELSE 1 + bit_length(x \div 2)

\* pow(x, -1, m) raises ValueError unless x has an inverse modulo m
invertible(x, m) == \E y \in 0..(m - 1) : (x * y) % m = 1 % m

\* pow(x, -1, m): the inverse of x modulo m
pow_inv(x, m) == CHOOSE y \in 0..(m - 1) : (x * y) % m = 1 % m

(***************************************************************************)
(* The random module.                                                      *)
(***************************************************************************)
\* random.getrandbits(k): a value of 0..2^k-1.  91 = 7*13 is the least
\* candidate congruent to 3 mod 4 that is composite and has a Miller-Rabin
\* witness in 2..n-2 accepting it.
getrandbits(k) ==
    IF 2^k - 1 <= FullRange THEN 0..(2^k - 1)
    ELSE (0..MaxDraw) \cup {91}

\* random.randint(lo, hi): a value of lo..hi
randint(lo, hi) ==
    IF hi - lo <= FullRange THEN lo..hi
    ELSE lo..(lo + FullRange)

\* random.randint(lo, hi) as run_protocol's many encryptions sample it
randint_sampled(lo, hi) == lo..Min(hi, lo + MaxBlind - 1)

(***************************************************************************)
(* GoldwasserMicali: number theory.                                        *)
(***************************************************************************)
\* is_prime, lines 35-40: the answers given before any witness is drawn
is_prime_early(m) ==
    IF m <= 1 THEN "False"
    ELSE IF m <= 3 THEN "True"
    ELSE IF m % 2 = 0 THEN "False"
    ELSE "rounds"

\* is_prime, lines 43-47: m - 1 = d * 2^s with d odd
RECURSIVE mr_d(_)
mr_d(x) == IF x % 2 = 0 THEN mr_d(x \div 2) ELSE x

RECURSIVE mr_s(_)
mr_s(x) == IF x % 2 = 0 THEN 1 + mr_s(x \div 2) ELSE 0

\* is_prime, lines 55-60: the inner loop of s - 1 squarings; TRUE when it
\* breaks on x = m - 1, FALSE when it runs out (the for-else returns False)
RECURSIVE mr_squarings(_, _, _)
mr_squarings(x, left, m) ==
    IF left = 0 THEN FALSE
    ELSE LET x2 == pow_mod(x, 2, m)
         IN IF x2 = m - 1 THEN TRUE ELSE mr_squarings(x2, left - 1, m)

\* is_prime, lines 51-60: one round with witness w; TRUE when the round
\* does not return False
mr_round_passes(m, w) ==
    LET x == pow_mod(w, mr_d(m - 1), m)
    IN IF x = 1 \/ x = m - 1 THEN TRUE
       ELSE mr_squarings(x, mr_s(m - 1) - 1, m)

\* legendre_symbol(x, pr), lines 99-102
legendre_symbol(x, pr) ==
    IF x % pr = 0 THEN 0
    ELSE LET result == pow_mod(x, (pr - 1) \div 2, pr)
         IN IF result = pr - 1 THEN -1 ELSE result

\* jacobi_twos flipping the sign when m mod 8 is 3 or 7
RECURSIVE jacobi_twos_3_or_7(_, _, _)
jacobi_twos_3_or_7(x, m, result) ==
    IF x % 2 = 0
    THEN jacobi_twos_3_or_7(x \div 2, m, IF m % 8 = 3 \/ m % 8 = 7 THEN -result ELSE result)
    ELSE <<x, result>>

\* jacobi_symbol, lines 124-128: remove the factors 2 of x, flipping the
\* sign for each when m mod 8 is 3 or 5
RECURSIVE jacobi_twos(_, _, _)
jacobi_twos(x, m, result) ==
    IF x % 2 = 0
    THEN jacobi_twos(x \div 2, m, IF m % 8 = 3 \/ m % 8 = 5 THEN -result ELSE result)
    ELSE <<x, result>>

\* jacobi_symbol, lines 122-139: the outer loop
RECURSIVE jacobi_loop(_, _, _)
jacobi_loop(x, m, result) ==
    IF x = 0 THEN (IF m = 1 THEN result ELSE 0)
    ELSE LET t2 == jacobi_twos(x, m, result)
             \* a, n = n, a
             x2 == m
             m2 == t2[1]
             r2 == IF x2 % 4 = 3 /\ m2 % 4 = 3 THEN -t2[2] ELSE t2[2]
         IN jacobi_loop(x2 % m2, m2, r2)

\* jacobi_symbol(x, m), lines 115-139; "ValueError" for m <= 0 or m even
jacobi_symbol(x, m) ==
    IF m <= 0 \/ m % 2 = 0 THEN "ValueError"
    ELSE jacobi_loop(x % m, m, 1)

(***************************************************************************)
(* State.                                                                  *)
(***************************************************************************)
VARIABLES
    \* run_protocol: its position, arguments and locals
    pc, a, b, a_bits, b_bits, A_messages, B_messages, msg_index,
    r_prev, current_M2, i, s, final_cipher, t,
    \* how many of the encryptions A drew itself are factors of the message
    \* A sent last
    fresh_factors,
    \* the payload of the message appended last (the logs are only appended
    \* to, never read; A and B read each other's ciphertexts from here)
    wire,
    \* the GoldwasserMicali object
    key_size, public_key, private_key,
    \* generate_keys and generate_large_prime_3mod4: position and locals
    gpc, target, num, mr_round, p, q, z_p, z_q,
    \* the tests of goldwasser_micali.py's __main__ and of the symbol
    \* functions: the test run, its position, its inputs and its results
    mode, mpc, bits, num32, rtape, ciphertext, decrypted,
    sym_a, sym_n, sym_result

protoVars == <<pc, a, b, a_bits, b_bits, A_messages, B_messages, msg_index,
               r_prev, current_M2, i, s, final_cipher, t, fresh_factors,
               wire>>
gmVars == <<key_size, public_key, private_key>>
kgVars == <<gpc, target, num, mr_round, p, q, z_p, z_q>>
mainVars == <<mode, mpc, bits, num32, rtape, ciphertext, decrypted,
              sym_a, sym_n, sym_result>>
vars == <<protoVars, gmVars, kgVars, mainVars>>

\* no test of __main__ is running
MainIdle ==
    /\ mode = None /\ mpc = "idle" /\ bits = None /\ num32 = None
    /\ rtape = None /\ ciphertext = None /\ decrypted = None
    /\ sym_a = None /\ sym_n = None /\ sym_result = None

(***************************************************************************)
(* GoldwasserMicali.generate_keys, step by step.                           *)
(***************************************************************************)
\* generate_large_prime_3mod4, lines 75-80: the candidate made of draw d
candidate(d) ==
    LET odd == IF d % 2 = 0 THEN d + 1 ELSE d
    IN IF odd % 4 # 3 THEN odd + (3 - (odd % 4)) ELSE odd

\* generate_large_prime_3mod4, lines 79-83: the adjusted candidate is
\* dropped when it has grown past bit_length bits
candidate_overflows(d, width) ==
    LET odd == IF d % 2 = 0 THEN d + 1 ELSE d
    IN odd % 4 # 3 /\ bit_length(candidate(d)) > width

\* generate_large_prime_3mod4, lines 73-85, with is_prime's lines 35-47:
\* one pass of the loop up to the first Miller-Rabin round
GenCandidateWith(d) ==
    /\ gpc = "draw"
    /\ d \in getrandbits(key_size \div 2)
    /\ IF candidate_overflows(d, key_size \div 2)
       THEN UNCHANGED <<gpc, num, mr_round>>
       ELSE /\ num' = candidate(d)
            /\ mr_round' = 0
            /\ gpc' = CASE is_prime_early(candidate(d)) = "True" -> "got"
                        [] is_prime_early(candidate(d)) = "False" -> "draw"
                        [] OTHER -> "mr"
    /\ UNCHANGED <<target, p, q, z_p, z_q, gmVars, protoVars, mainVars>>

\* the same, over the values getrandbits can return
GenCandidate == \E d \in getrandbits(key_size \div 2) : GenCandidateWith(d)

\* the passes of the loop that make the candidate c
GenCandidateOf(c) ==
    \E d \in getrandbits(key_size \div 2) : candidate(d) = c /\ GenCandidateWith(d)

\* is_prime, lines 50-61: one of the k = 5 rounds, with a witness drawn
\* from [2, n - 2]
MillerRabinRound ==
    /\ gpc = "mr"
    /\ \E w \in randint(2, num - 2) :
         IF mr_round_passes(num, w)
         THEN IF mr_round + 1 = MillerRabinRounds
              THEN gpc' = "got" /\ UNCHANGED mr_round
              ELSE mr_round' = mr_round + 1 /\ UNCHANGED gpc
         ELSE gpc' = "draw" /\ UNCHANGED mr_round
    /\ UNCHANGED <<target, num, p, q, z_p, z_q, gmVars, protoVars, mainVars>>

\* generate_keys, lines 158-166 and 175: p, then q, q again while p = q
AssignPrime ==
    /\ gpc = "got"
    /\ IF target = "p"
       THEN /\ p' = num
            /\ target' = "q"
            /\ gpc' = "draw"
            /\ UNCHANGED <<q, z_p>>
       ELSE /\ q' = num
            /\ gpc' = IF p = num THEN "draw" ELSE "find_zp"
            /\ z_p' = IF p = num THEN z_p ELSE 2
            /\ UNCHANGED <<p, target>>
    /\ UNCHANGED <<num, mr_round, z_q, gmVars, protoVars, mainVars>>

\* generate_keys, lines 176-177 and 180
FindZp ==
    /\ gpc = "find_zp"
    /\ IF legendre_symbol(z_p, p) # -1
       THEN z_p' = z_p + 1 /\ UNCHANGED <<gpc, z_q>>
       ELSE z_q' = 2 /\ gpc' = "find_zq" /\ UNCHANGED z_p
    /\ UNCHANGED <<target, num, mr_round, p, q, gmVars, protoVars, mainVars>>

\* generate_keys, lines 181-182
FindZq ==
    /\ gpc = "find_zq"
    /\ IF legendre_symbol(z_q, q) # -1
       THEN z_q' = z_q + 1 /\ UNCHANGED gpc
       ELSE gpc' = "crt" /\ UNCHANGED z_q
    /\ UNCHANGED <<target, num, mr_round, p, q, z_p, gmVars, protoVars, mainVars>>

\* generate_keys, lines 190-192: z = z_p + k*p with
\* k = ((z_q - z_p) % q) * p_inv_q % q
crt_z(pp, qq, zp, zq) ==
    LET p_inv_q == pow_inv(pp, qq)
        k == (((zq - zp) % qq) * p_inv_q) % qq
    IN zp + k * pp

\* generate_keys, lines 195-197: the three assertions
key_asserts(pp, qq, z) ==
    /\ legendre_symbol(z % pp, pp) = -1
    /\ legendre_symbol(z % qq, qq) = -1
    /\ jacobi_symbol(z, pp * qq) = 1

\* generate_keys, lines 190-202
Crt ==
    /\ gpc = "crt"
    /\ IF ~invertible(p, q)
       THEN gpc' = "ValueError" /\ UNCHANGED <<public_key, private_key>>
       ELSE IF ~key_asserts(p, q, crt_z(p, q, z_p, z_q))
       THEN gpc' = "AssertionError" /\ UNCHANGED <<public_key, private_key>>
       ELSE /\ public_key' = <<p * q, crt_z(p, q, z_p, z_q)>>
            /\ private_key' = <<p, q>>
            /\ gpc' = "returned"
    /\ UNCHANGED <<target, num, mr_round, p, q, z_p, z_q, key_size, protoVars,
                   mainVars>>

\* generate_keys called on a fresh GoldwasserMicali(key_size), as the
\* __main__ of goldwasser_micali.py does
InitKeys ==
    /\ key_size \in MinKeySize..MaxKeySize
    /\ public_key = None /\ private_key = None
    /\ gpc = "draw" /\ target = "p" /\ num = None /\ mr_round = 0
    /\ p = None /\ q = None /\ z_p = None /\ z_q = None
    /\ pc = "gm_main"
    /\ a = None /\ b = None /\ a_bits = None /\ b_bits = None
    /\ A_messages = None /\ B_messages = None /\ msg_index = None
    /\ r_prev = None /\ current_M2 = None /\ i = None /\ s = None
    /\ final_cipher = None /\ t = None /\ wire = None
    /\ fresh_factors = 0
    /\ MainIdle

NextKeys ==
    \/ GenCandidate
    \/ MillerRabinRound
    \/ AssignPrime
    \/ FindZp
    \/ FindZq
    \/ Crt

SpecKeys == InitKeys /\ [][NextKeys]_vars

\* generate_keys with a fair random module, for key sizes small enough to
\* state the fairness candidate by candidate.  What generate_keys has not
\* assigned yet is 0 here, not None, so that the value of a variable before
\* a step and its value after can always be compared.
InitKeysFair ==
    /\ key_size \in MinKeySize..MaxFairKeySize
    /\ public_key = <<0, 0>> /\ private_key = <<0, 0>>
    /\ gpc = "draw" /\ target = "p" /\ num = 0 /\ mr_round = 0
    /\ p = 0 /\ q = 0 /\ z_p = 0 /\ z_q = 0
    /\ pc = "gm_main"
    /\ a = None /\ b = None /\ a_bits = None /\ b_bits = None
    /\ A_messages = None /\ B_messages = None /\ msg_index = None
    /\ r_prev = None /\ current_M2 = None /\ i = None /\ s = None
    /\ final_cipher = None /\ t = None /\ wire = None
    /\ fresh_factors = 0
    /\ MainIdle

\* the candidates generate_large_prime_3mod4 can make for these key sizes
FairCandidates == {candidate(d) : d \in getrandbits(MaxFairKeySize \div 2)}

\* every candidate value is drawn again and again, and every step of the
\* program is taken when it can be
FairRandom ==
    /\ \A c \in FairCandidates : SF_vars(GenCandidateOf(c))
    /\ WF_vars(MillerRabinRound)
    /\ WF_vars(AssignPrime)
    /\ WF_vars(FindZp)
    /\ WF_vars(FindZq)
    /\ WF_vars(Crt)

SpecKeysFair == InitKeysFair /\ [][NextKeys]_vars /\ FairRandom

(***************************************************************************)
(* GoldwasserMicali: encryption and decryption of one bit.  The blinding   *)
(* factor r, drawn inside the source's functions, is a parameter here.     *)
(***************************************************************************)
\* encrypt_bit, lines 223-226: the values the loop can leave in r
blinders(m) == {r \in randint(1, m - 1) : gcd(r, m) = 1}

\* encrypt_bit with the multiplication by z left out
encrypt_bit_without_z(bit, r, pk) ==
    IF bit = 0 \/ bit = 1 THEN pow_mod(r, 2, pk[1]) ELSE "ValueError"

\* encrypt_bit(bit, public_key), lines 220 and 229-236, with r drawn
encrypt_bit(bit, r, pk) ==
    IF bit = 0 THEN pow_mod(r, 2, pk[1])
    ELSE IF bit = 1 THEN (pow_mod(r, 2, pk[1]) * pk[2]) % pk[1]
    ELSE "ValueError"

\* decrypt_bit(c, private_key), lines 290-300
decrypt_bit(c, sk) ==
    LET ls_p == legendre_symbol(c % sk[1], sk[1])
        ls_q == legendre_symbol(c % sk[2], sk[2])
    IN IF ls_p = 1 /\ ls_q = 1 THEN 0 ELSE 1

(***************************************************************************)
(* SecureComparisonProtocol_16bit: helpers.                                *)
(***************************************************************************)
\* in_range with the upper bound off by one
in_range_inclusive(x) == ~(x < 0 \/ x > 2^W)

\* run_protocol, lines 87 and 89: the range test of an operand
in_range(x) == ~(x < 0 \/ x >= 2^W)

\* format(num, '016b'): 16 binary digits, the most significant first
format_016b(x) == [k \in 1..W |-> (x \div 2^(W - k)) % 2]

\* seq[::-1]
reversed(sq) == [k \in 1..Len(sq) |-> sq[Len(sq) + 1 - k]]

\* _int_to_16bits(num), lines 26-29: least significant bit first
int_to_16bits(x) == reversed(format_016b(x))

\* _c_mul adding the ciphertexts
c_mul_adding(c1, c2, m) == (c1 + c2) % m

\* _c_mul(c1, c2, n), line 49
c_mul(c1, c2, m) == (c1 * c2) % m

\* _encrypt_constant(gm, constant, public_key), lines 54 and 62-67, with r
\* drawn
encrypt_constant(constant, r, pk) ==
    IF constant = 0 THEN pow_mod(r, 2, pk[1])
    ELSE IF constant = 1 THEN (pow_mod(r, 2, pk[1]) * pk[2]) % pk[1]
    ELSE "ValueError"

\* _encrypt_constant, lines 57-60: the values the loop can leave in r
constant_blinders(m) == {r \in randint(1, m - 1) : gcd(r, m) = 1}

\* the same, sampled for the many encryptions of run_protocol
constant_blinders_sampled(m) ==
    {r \in randint_sampled(1, m - 1) : gcd(r, m) = 1}

\* the ciphertexts _encrypt_constant can return, over the draws of r
encryptions(constant, pk) ==
    {encrypt_constant(constant, r, pk) : r \in constant_blinders_sampled(pk[1])}

\* s | b_bits[i] and s & b_bits[i] on bits, lines 167-168
bit_or(x, y) == IF x = 1 \/ y = 1 THEN 1 ELSE 0
bit_and(x, y) == IF x = 1 /\ y = 1 THEN 1 ELSE 0

\* msg1_payload with the wrong key of the pair
msg1_payload_private(pk, sk, E_b0) == [pk |-> sk, E_b0 |-> E_b0]

\* run_protocol, lines 123-126: the payload of message 1
msg1_payload(pk, sk, E_b0) == [pk |-> pk, E_b0 |-> E_b0]

\* append_message logging the index as it was before its increment
append_message_stale_index(log, index, label) ==
    Append(log, [index |-> index - 1, label |-> label])

\* append_message that leaves the final, unmasked message out of the log
append_message_but_final(log, index, label) ==
    IF label = "E(t15)" THEN log ELSE Append(log, [index |-> index, label |-> label])

\* A_messages.append / B_messages.append of (msg_index, label, payload);
\* the payload goes to wire
append_message(log, index, label) == Append(log, [index |-> index, label |-> label])

\* run_protocol, lines 132-137: E(t_0) from A's bit 0, a fresh E(0) and
\* B's E(b_0)
construct_E_t0(a_0, E_zero, E_b0) == IF a_0 = 1 THEN E_zero ELSE E_b0

\* run_protocol, lines 190-215: E(t_i) from A's bit, the previous mask,
\* B's three ciphertexts and E_one, the E(1) of line 198
construct_E_ti(a_i, rp, E_u0, E_u1, E_bi, E_one, m) ==
    IF a_i = 0
    THEN IF rp = 0 THEN E_u0
         ELSE c_mul(E_u0, c_mul(E_one, E_bi, m), m)
    ELSE IF rp = 0 THEN E_u1
         ELSE c_mul(E_u1, E_bi, m)

\* run_protocol, lines 132-137: the _encrypt_constant calls of A among the
\* factors of E(t_0): the E(0) of line 134
fresh_in_E_t0(a_0) == IF a_0 = 1 THEN 1 ELSE 0

\* run_protocol, lines 190-215: the _encrypt_constant calls of A among the
\* factors of E(t_i): the E(1) of line 198; every other factor is one of
\* B's E(u0), E(u1), E(b_i)
fresh_in_E_ti(a_i, rp) == IF a_i = 0 /\ rp = 1 THEN 1 ELSE 0

\* the operands the model calls run_protocol with
Operands ==
    (-1..MaxSmall) \cup {2^W - 1 - k : k \in 0..MaxSmall} \cup {2^W}

(***************************************************************************)
(* SecureComparisonProtocol_16bit.run_protocol, step by step.              *)
(***************************************************************************)
\* run_protocol, lines 86-116: validation, the empty logs, the bits, the
\* GoldwasserMicali object, and the call of generate_keys
Call ==
    /\ pc = "call"
    /\ IF ~in_range(a) \/ ~in_range(b)
       THEN /\ pc' = "ValueError"
            /\ UNCHANGED <<a_bits, b_bits, A_messages, B_messages, msg_index,
                           gpc, target>>
       ELSE /\ A_messages' = <<>>
            /\ B_messages' = <<>>
            /\ a_bits' = int_to_16bits(a)
            /\ b_bits' = int_to_16bits(b)
            /\ msg_index' = 1
            /\ gpc' = "draw"
            /\ target' = "p"
            /\ pc' = "keys"
    /\ UNCHANGED <<a, b, r_prev, current_M2, i, s, final_cipher, t, wire,
                   fresh_factors, gmVars, num, mr_round, p, q, z_p, z_q,
                   mainVars>>

\* run_protocol, lines 117-126: message 1, B -> A: pk, E(b0)
B_Msg1 ==
    /\ pc = "keys"
    /\ gpc = "returned"
    /\ \E E_b0 \in encryptions(b_bits[1], public_key) :
         wire' = msg1_payload(public_key, private_key, E_b0)
    /\ B_messages' = append_message(B_messages, msg_index, "pk, E(b0)")
    /\ pc' = "A_round0"
    /\ UNCHANGED <<a, b, a_bits, b_bits, A_messages, msg_index, r_prev,
                   current_M2, i, s, final_cipher, t, fresh_factors,
                   gmVars, kgVars, mainVars>>

\* run_protocol, lines 131-156: A builds E(t0), masks it with r0 and sends
\* M2; the loop starts at i = 1
A_Round0 ==
    /\ pc = "A_round0"
    /\ \E r0 \in getrandbits(1), E_zero \in encryptions(0, public_key) :
       \E E_r0 \in encryptions(r0, public_key) :
         LET E_t0 == construct_E_t0(a_bits[1], E_zero, wire.E_b0)
             M2 == c_mul(E_t0, E_r0, public_key[1])
         IN /\ r_prev' = r0
            /\ current_M2' = M2
            /\ wire' = [M2 |-> M2]
    /\ msg_index' = msg_index + 1
    /\ A_messages' = append_message(A_messages, msg_index + 1, "M2")
    /\ i' = 1
    /\ fresh_factors' = fresh_in_E_t0(a_bits[1]) + 1
    /\ pc' = "B_round"
    /\ UNCHANGED <<a, b, a_bits, b_bits, B_messages, s, final_cipher, t,
                   gmVars, kgVars, mainVars>>

\* run_protocol, lines 160-184: B decrypts s, computes u0 and u1, and sends
\* E(u0), E(u1), E(b_i)
B_Round ==
    /\ pc = "B_round"
    /\ LET s1 == decrypt_bit(current_M2, private_key)
           u0 == bit_or(s1, b_bits[i + 1])
           u1 == bit_and(s1, b_bits[i + 1])
       IN /\ s' = s1
          /\ \E E_u0 \in encryptions(u0, public_key),
                E_u1 \in encryptions(u1, public_key),
                E_bi \in encryptions(b_bits[i + 1], public_key) :
               wire' = [E_u0 |-> E_u0, E_u1 |-> E_u1, E_bi |-> E_bi]
    /\ msg_index' = msg_index + 1
    /\ B_messages' = append_message(B_messages, msg_index + 1, "round")
    /\ pc' = "A_round"
    /\ UNCHANGED <<a, b, a_bits, b_bits, A_messages, r_prev, current_M2, i,
                   final_cipher, t, fresh_factors, gmVars, kgVars, mainVars>>

\* run_protocol, lines 189-243: A builds E(t_i); before the last round it
\* masks it with a new r_i, in the last round it sends it as it is
A_Round ==
    /\ pc = "A_round"
    /\ \E E_one \in encryptions(1, public_key) :
         LET E_ti == construct_E_ti(a_bits[i + 1], r_prev, wire.E_u0, wire.E_u1,
                                    wire.E_bi, E_one, public_key[1])
         IN IF i < W - 1
            THEN \E r_i \in getrandbits(1) :
                 \E E_ri \in encryptions(r_i, public_key) :
                      LET M == c_mul(E_ti, E_ri, public_key[1])
                      IN /\ current_M2' = M
                         /\ wire' = [M |-> M]
                         /\ r_prev' = r_i
                         /\ A_messages' = append_message(A_messages, msg_index + 1, "M")
                         /\ i' = i + 1
                         /\ pc' = "B_round"
                         /\ UNCHANGED final_cipher
            ELSE /\ wire' = [E_t15 |-> E_ti]
                 /\ final_cipher' = E_ti
                 /\ A_messages' = append_message(A_messages, msg_index + 1, "E(t15)")
                 /\ pc' = "B_final"
                 /\ UNCHANGED <<current_M2, r_prev, i>>
    /\ fresh_factors' = fresh_in_E_ti(a_bits[i + 1], r_prev)
                            + (IF i < W - 1 THEN 1 ELSE 0)
    /\ msg_index' = msg_index + 1
    /\ UNCHANGED <<a, b, a_bits, b_bits, B_messages, s, t, gmVars, kgVars, mainVars>>

\* run_protocol, lines 246-257: B decrypts the result
B_Final ==
    /\ pc = "B_final"
    /\ t' = decrypt_bit(final_cipher, private_key)
    /\ pc' = "done"
    /\ UNCHANGED <<a, b, a_bits, b_bits, A_messages, B_messages, msg_index,
                   r_prev, current_M2, i, s, final_cipher, wire, fresh_factors,
                   gmVars, kgVars, mainVars>>

\* run_protocol(a, b) about to be called with the default key_size
Init ==
    /\ pc = "call"
    /\ a \in Operands /\ b \in Operands
    /\ key_size = DefaultKeySize
    /\ public_key = None /\ private_key = None
    /\ gpc = "idle" /\ target = None /\ num = None /\ mr_round = 0
    /\ p = None /\ q = None /\ z_p = None /\ z_q = None
    /\ a_bits = None /\ b_bits = None
    /\ A_messages = None /\ B_messages = None /\ msg_index = None
    /\ r_prev = None /\ current_M2 = None /\ i = None /\ s = None
    /\ final_cipher = None /\ t = None /\ wire = None
    /\ fresh_factors = 0
    /\ MainIdle

Next ==
    \/ Call
    \/ NextKeys
    \/ B_Msg1
    \/ A_Round0
    \/ B_Round
    \/ A_Round
    \/ B_Final

Spec == Init /\ [][Next]_vars

(***************************************************************************)
(* The bit-level tests: encrypt_bit, batch_encrypt_bits and the ciphertext *)
(* product, each followed by decrypt_bit, under every valid key pair of    *)
(* small primes.                                                           *)
(***************************************************************************)
\* the primes p = 3 mod 4 the tests build their keys of
SmallPrimes3mod4 ==
    {x \in 3..MaxPrime : x % 4 = 3 /\ \A d \in 2..(x - 1) : x % d # 0}

\* the key pairs <<(n, z), (p, q)>> of the cryptosystem: distinct primes
\* p, q = 3 mod 4 and z a non-residue modulo both
ValidKeys ==
    {<<<<pp * qq, z>>, <<pp, qq>>>> :
        <<pp, qq, z>> \in
            {k \in SmallPrimes3mod4 \X SmallPrimes3mod4 \X (1..(MaxPrime * MaxPrime)) :
                /\ k[1] # k[2]
                /\ k[3] < k[1] * k[2]
                /\ legendre_symbol(k[3] % k[1], k[1]) = -1
                /\ legendre_symbol(k[3] % k[2], k[2]) = -1}}

\* the bit lists of at most len bits
RECURSIVE BitLists(_)
BitLists(len) ==
    IF len = 0 THEN {<<>>}
    ELSE BitLists(len - 1)
         \cup {Append(sq, bit) : sq \in {l \in BitLists(len - 1) : Len(l) = len - 1},
                                  bit \in {0, 1}}

\* batch_encrypt_bits, lines 420-425: the ciphertext of one bit of the
\* list, with r drawn
batch_encrypt_one(bit, r, pk) ==
    IF bit = 0 THEN pow_mod(r, 2, pk[1])
    ELSE IF bit = 1 THEN (pow_mod(r, 2, pk[1]) * pk[2]) % pk[1]
    ELSE "ValueError"

\* c = gm.encrypt_bit(bit): one ciphertext
EncryptBit ==
    /\ mpc = "encrypt_bit"
    /\ \E r \in blinders(public_key[1]) :
         ciphertext' = <<encrypt_bit(bits[1], r, public_key)>>
    /\ mpc' = "decrypt"
    /\ UNCHANGED <<mode, bits, num32, rtape, decrypted, sym_a, sym_n, sym_result,
                   protoVars, gmVars, kgVars>>

\* batch_encrypt_bits, lines 413-429: one pass of the loop over bits, or
\* the return at its end
BatchEncryptBits ==
    /\ mpc = "batch_encrypt_bits"
    /\ IF Len(ciphertext) < Len(bits)
       THEN /\ \E r \in blinders(public_key[1]) :
                 ciphertext' = Append(ciphertext,
                     batch_encrypt_one(bits[Len(ciphertext) + 1], r, public_key))
            /\ UNCHANGED mpc
       ELSE /\ mpc' = "decrypt"
            /\ UNCHANGED ciphertext
    /\ UNCHANGED <<mode, bits, num32, rtape, decrypted, sym_a, sym_n, sym_result,
                   protoVars, gmVars, kgVars>>

\* E(x), E(y) of _encrypt_constant and their product _c_mul(E(x), E(y), n)
CMul ==
    /\ mpc = "c_mul"
    /\ \E r1 \in constant_blinders(public_key[1]),
          r2 \in constant_blinders(public_key[1]) :
         LET E_x == encrypt_constant(bits[1], r1, public_key)
             E_y == encrypt_constant(bits[2], r2, public_key)
         IN ciphertext' = <<E_x, E_y, c_mul(E_x, E_y, public_key[1])>>
    /\ mpc' = "decrypt"
    /\ UNCHANGED <<mode, bits, num32, rtape, decrypted, sym_a, sym_n, sym_result,
                   protoVars, gmVars, kgVars>>

\* [gm.decrypt_bit(c) for c in ciphertext], line 496
DecryptBits ==
    /\ mpc = "decrypt"
    /\ decrypted' = [k \in 1..Len(ciphertext) |->
                        decrypt_bit(ciphertext[k], private_key)]
    /\ mpc' = "done"
    /\ UNCHANGED <<mode, bits, num32, rtape, ciphertext, sym_a, sym_n, sym_result,
                   protoVars, gmVars, kgVars>>

\* neither run_protocol nor generate_keys is running
ProtocolIdle ==
    /\ pc = "gm_main"
    /\ a = None /\ b = None /\ a_bits = None /\ b_bits = None
    /\ A_messages = None /\ B_messages = None /\ msg_index = None
    /\ r_prev = None /\ current_M2 = None /\ i = None /\ s = None
    /\ final_cipher = None /\ t = None /\ wire = None
    /\ fresh_factors = 0
    /\ gpc = "idle" /\ target = None /\ num = None /\ mr_round = 0
    /\ p = None /\ q = None /\ z_p = None /\ z_q = None

\* a test about to start, with a valid key pair and its bits
InitEnc ==
    /\ ProtocolIdle
    /\ key_size = DefaultKeySize
    /\ \E k \in ValidKeys : public_key = k[1] /\ private_key = k[2]
    /\ mode \in {"encrypt_bit", "batch_encrypt_bits", "c_mul"}
    /\ mpc = mode
    /\ bits \in BitLists(MaxBits)
    /\ mode = "encrypt_bit" => Len(bits) = 1
    /\ mode = "c_mul" => Len(bits) = 2
    /\ ciphertext = <<>> /\ decrypted = None
    /\ num32 = None /\ rtape = None
    /\ sym_a = None /\ sym_n = None /\ sym_result = None

NextEnc ==
    \/ EncryptBit
    \/ BatchEncryptBits
    \/ CMul
    \/ DecryptBits

SpecEnc == InitEnc /\ [][NextEnc]_vars

(***************************************************************************)
(* encrypt_32bit_int and decrypt_32bit_int.  A Python int of up to 33 bits *)
(* is the pair <<hi, lo>> of its halves, num = hi * 2^16 + lo with lo in   *)
(* 0..2^16-1; a negative num has hi < 0.                                   *)
(***************************************************************************)
\* format_032b with the least significant bit first
format_032b_lsb_first(x) ==
    [k \in 1..(2 * W) |->
        IF k <= W THEN (x[2] \div 2^(k - 1)) % 2
        ELSE (x[1] \div 2^(k - W - 1)) % 2]

\* format(num, '032b'), line 360: 32 binary digits, the most significant
\* first
format_032b(x) == format_016b(x[1]) \o format_016b(x[2])

\* int(binary_str, 2) of at most 16 digits
RECURSIVE int_base2(_)
int_base2(sq) ==
    IF Len(sq) = 0 THEN 0
    ELSE 2 * int_base2(SubSeq(sq, 1, Len(sq) - 1)) + sq[Len(sq)]

\* int(binary_str, 2) of 32 digits, line 392
int_base2_32(sq) ==
    <<int_base2(SubSeq(sq, 1, W)), int_base2(SubSeq(sq, W + 1, 2 * W))>>

\* the blinding factor of the k-th encrypt_bit call of a run
tape_blinder(k) == rtape[((k - 1) % Len(rtape)) + 1]

\* encrypt_32bit_int(num), lines 356-369
Encrypt32bitInt ==
    /\ mpc = "encrypt_32bit_int"
    /\ IF num32[1] < 0 \/ num32[1] >= 2^W
       THEN /\ mpc' = "ValueError"
            /\ UNCHANGED ciphertext
       ELSE /\ ciphertext' = [k \in 1..(2 * W) |->
                                encrypt_bit(format_032b(num32)[k], tape_blinder(k),
                                            public_key)]
            /\ mpc' = "decrypt_32bit_int"
    /\ UNCHANGED <<mode, bits, num32, rtape, decrypted, sym_a, sym_n, sym_result,
                   protoVars, gmVars, kgVars>>

\* decrypt_32bit_int(ciphertext), lines 382-392
Decrypt32bitInt ==
    /\ mpc = "decrypt_32bit_int"
    /\ IF Len(ciphertext) # 2 * W
       THEN /\ mpc' = "ValueError"
            /\ UNCHANGED decrypted
       ELSE /\ decrypted' = int_base2_32([k \in 1..Len(ciphertext) |->
                                decrypt_bit(ciphertext[k], private_key)])
            /\ mpc' = "done"
    /\ UNCHANGED <<mode, bits, num32, rtape, ciphertext, sym_a, sym_n, sym_result,
                   protoVars, gmVars, kgVars>>

\* the halves the model builds its 32-bit numbers of; 1883 and 52501 are
\* the halves of 123456789, a test number of __main__
Halves ==
    (0..MaxSmall) \cup {2^W - 1 - k : k \in 0..MaxSmall} \cup {1883, 52501}

\* the arguments of encrypt_32bit_int: numbers of [0, 2^32), and numbers
\* below and above
Numbers32 == (Halves \cup {-1, 2^W}) \X Halves

\* the key pairs generate_keys returns for small primes
GeneratedKeys ==
    {k \in ValidKeys :
        \E zp \in 2..k[2][1], zq \in 2..k[2][2] :
            /\ legendre_symbol(zp, k[2][1]) = -1
            /\ \A y \in 2..(zp - 1) : legendre_symbol(y, k[2][1]) # -1
            /\ legendre_symbol(zq, k[2][2]) = -1
            /\ \A y \in 2..(zq - 1) : legendre_symbol(y, k[2][2]) # -1
            /\ k[1][2] = crt_z(k[2][1], k[2][2], zp, zq)}

\* the 32-bit test of __main__, lines 465-473, about to start
Init32 ==
    /\ ProtocolIdle
    /\ key_size = DefaultKeySize
    /\ \E k \in GeneratedKeys : public_key = k[1] /\ private_key = k[2]
    /\ mode = "32bit"
    /\ mpc = "encrypt_32bit_int"
    /\ num32 \in Numbers32
    /\ rtape \in [1..TapePeriod -> constant_blinders_sampled(public_key[1])]
    /\ ciphertext = <<>> /\ decrypted = None /\ bits = None
    /\ sym_a = None /\ sym_n = None /\ sym_result = None

Next32 ==
    \/ Encrypt32bitInt
    \/ Decrypt32bitInt

Spec32 == Init32 /\ [][Next32]_vars

(***************************************************************************)
(* jacobi_symbol and legendre_symbol called on small arguments.            *)
(***************************************************************************)
\* gm.jacobi_symbol(a, n)
JacobiSymbol ==
    /\ mpc = "jacobi_symbol"
    /\ sym_result' = jacobi_symbol(sym_a, sym_n)
    /\ mpc' = "done"
    /\ UNCHANGED <<mode, bits, num32, rtape, ciphertext, decrypted, sym_a, sym_n,
                   protoVars, gmVars, kgVars>>

\* gm.legendre_symbol(a, p)
LegendreSymbol ==
    /\ mpc = "legendre_symbol"
    /\ sym_result' = legendre_symbol(sym_a, sym_n)
    /\ mpc' = "done"
    /\ UNCHANGED <<mode, bits, num32, rtape, ciphertext, decrypted, sym_a, sym_n,
                   protoVars, gmVars, kgVars>>

\* the odd numbers and the odd primes of 1..MaxN
OddModuli == {m \in 1..MaxN : m % 2 = 1}
OddPrimes == {m \in 3..MaxN : m % 2 = 1 /\ \A d \in 2..(m - 1) : m % d # 0}

\* a call of one of the two functions about to be made
InitSym ==
    /\ ProtocolIdle
    /\ key_size = DefaultKeySize
    /\ public_key = None /\ private_key = None
    /\ mode \in {"jacobi_symbol", "legendre_symbol"}
    /\ mpc = mode
    /\ sym_a \in (-MaxA)..MaxA
    /\ sym_n \in IF mode = "jacobi_symbol" THEN OddModuli ELSE OddPrimes
    /\ sym_result = None
    /\ bits = None /\ num32 = None /\ rtape = None
    /\ ciphertext = None /\ decrypted = None

NextSym ==
    \/ JacobiSymbol
    \/ LegendreSymbol

SpecSym == InitSym /\ [][NextSym]_vars

(***************************************************************************)
(* Reference notions the properties are stated with.                       *)
(***************************************************************************)
IsPrime(x) == x > 1 /\ \A d \in 2..(x - 1) : x % d # 0

xor(x, y) == IF x = y THEN 0 ELSE 1

\* the comparison of the k+1 low bits: 1 iff a mod 2^(k+1) < b mod 2^(k+1)
prefix_less(x, y, k) == IF x % 2^(k + 1) < y % 2^(k + 1) THEN 1 ELSE 0

\* the positions of run_protocol at which a message has been sent
Sent == {"A_round0", "B_round", "A_round", "B_final", "done"}

(***************************************************************************)
(* C1: for all a, b in [0, 2^16) and every random choice, run_protocol     *)
(* returns t = 1 if a < b and t = 0 if a >= b.                             *)
(***************************************************************************)
C1_ResultIsLessThan ==
    pc = "done" => t = (IF a < b THEN 1 ELSE 0)

\* what does hold: the result is right whenever generate_keys returned
\* primes
ResultRightForPrimeKeys ==
    (pc = "done" /\ IsPrime(p) /\ IsPrime(q)) => t = (IF a < b THEN 1 ELSE 0)

(***************************************************************************)
(* C2: every completed run has logged exactly W+1 messages of A and W+1    *)
(* messages of B.                                                          *)
(***************************************************************************)
C2_CountsWPlusOne ==
    pc = "done" => Len(A_messages) = W + 1 /\ Len(B_messages) = W + 1

\* C2 as amended: every completed run has logged exactly W messages of A
\* and W messages of B (16 and 16, 32 in all).
C2_CountsW ==
    pc = "done" => Len(A_messages) = W /\ Len(B_messages) = W

C2_RunCompleted == pc = "done" /\ msg_index = 2 * W

(***************************************************************************)
(* C3: with an operand that is negative or >= 2^16, run_protocol raises    *)
(* before any step: no key pair, no log entry, no ciphertext, no decrypted *)
(* bit, no result.                                                         *)
(***************************************************************************)
C3_RejectedBeforeAnyStep ==
    (a < 0 \/ a >= 65536 \/ b < 0 \/ b >= 65536) =>
        /\ pc \in {"call", "ValueError"}
        /\ gpc = "idle"
        /\ public_key = None /\ private_key = None
        /\ p = None /\ q = None
        /\ A_messages = None /\ B_messages = None /\ msg_index = None
        /\ wire = None /\ current_M2 = None /\ final_cipher = None
        /\ s = None /\ t = None

C3_Rejected ==
    pc = "ValueError" /\ (a < 0 \/ a >= 65536 \/ b < 0 \/ b >= 65536)

(***************************************************************************)
(* C7: the bit s that B decrypts in round i+1 is t_i XOR r_i, and whatever *)
(* t_i is, A's next message can decrypt to either value of s.              *)
(***************************************************************************)
C7_MaskedView ==
    /\ pc = "A_round" => s = xor(prefix_less(a, b, i - 1), r_prev)
    /\ (pc = "A_round0" \/ (pc = "A_round" /\ i < W - 1)) =>
         \A sv \in {0, 1} :
            ENABLED ((A_Round0 \/ A_Round)
                     /\ decrypt_bit(current_M2', private_key) = sv)

\* what does hold: the same with a key made of primes
MaskedViewForPrimeKeys ==
    (pc \in Sent /\ IsPrime(p) /\ IsPrime(q)) => C7_MaskedView

(***************************************************************************)
(* C8: no payload field of any message is the private key or one of its    *)
(* primes; the only key sent is the public key, in B's first message.      *)
(***************************************************************************)
C8_PrivateKeyNeverSent ==
    pc \in Sent =>
        \A f \in DOMAIN wire :
            IF f = "pk"
            THEN /\ wire[f] = public_key
                 /\ wire[f] # private_key
                 /\ wire[f][1] \notin {p, q} /\ wire[f][2] \notin {p, q}
                 /\ pc = "A_round0"
            ELSE wire[f] \notin {p, q}

C8_PublicKeySent == pc = "A_round0" /\ wire.pk = public_key

(***************************************************************************)
(* C4: every key pair generate_keys returns has n = p*q, p and q congruent *)
(* to 3 mod 4 and distinct, Legendre(z mod p, p) = Legendre(z mod q, q) =  *)
(* -1 and Jacobi(z, n) = +1; the CRT step always yields z with             *)
(* z mod p = z_p and z mod q = z_q, and no assertion fires.                *)
(***************************************************************************)
C4_KeyInvariants ==
    /\ gpc \notin {"ValueError", "AssertionError"}
    /\ gpc = "returned" =>
         /\ public_key[1] = p * q
         /\ private_key = <<p, q>>
         /\ p % 4 = 3 /\ q % 4 = 3 /\ p # q
         /\ legendre_symbol(public_key[2] % p, p) = -1
         /\ legendre_symbol(public_key[2] % q, q) = -1
         /\ jacobi_symbol(public_key[2], public_key[1]) = 1
         /\ public_key[2] % p = z_p
         /\ public_key[2] % q = z_q

\* what does hold: the same, apart from the ValueError of pow(p, -1, q)
ReturnedKeyInvariants ==
    /\ gpc # "AssertionError"
    /\ gpc # "ValueError" => C4_KeyInvariants

\* and with primes, the CRT step never fails
KeyInvariantsForPrimes ==
    (gpc \in {"crt", "ValueError", "AssertionError", "returned"}
        /\ IsPrime(p) /\ IsPrime(q)) => C4_KeyInvariants

(***************************************************************************)
(* C5: for every valid key pair, every bit and every blinding factor r of  *)
(* [1, n-1] with gcd(r, n) = 1, decrypt_bit(encrypt_bit(b)) = b, and the   *)
(* bits decrypted from batch_encrypt_bits's list are the bits given, in    *)
(* order.                                                                  *)
(***************************************************************************)
C5_RoundTrip ==
    (mode \in {"encrypt_bit", "batch_encrypt_bits"} /\ mpc = "done") =>
        decrypted = bits

C5_BatchDecrypted ==
    /\ mode = "batch_encrypt_bits" /\ mpc = "done"
    /\ bits = <<1, 0>> /\ decrypted = <<1, 0>>
    /\ public_key[1] = 77

(***************************************************************************)
(* C6: for every valid key pair, all bits x, y and all blinding factors,   *)
(* the product _c_mul(E(x), E(y), n) decrypts to x XOR y.                  *)
(***************************************************************************)
C6_ProductIsXor ==
    (mode = "c_mul" /\ mpc = "done") =>
        /\ decrypted[1] = bits[1]
        /\ decrypted[2] = bits[2]
        /\ decrypted[3] = xor(bits[1], bits[2])

C6_ProductOfOnes ==
    /\ mode = "c_mul" /\ mpc = "done"
    /\ bits = <<1, 1>> /\ decrypted = <<1, 1, 0>>
    /\ ciphertext[1] # ciphertext[2]

(***************************************************************************)
(* C9: for every num of [0, 2^32), encrypt_32bit_int(num) returns exactly  *)
(* 32 ciphertexts, the k-th one an encryption of the k-th most significant *)
(* bit of num, and decrypt_32bit_int of that list returns num.             *)
(***************************************************************************)
\* the bit of weight 2^(32-k) of the number x = <<hi, lo>>
bit_of_weight(x, k) ==
    IF k <= 16 THEN (x[1] \div 2^(16 - k)) % 2 ELSE (x[2] \div 2^(32 - k)) % 2

C9_RoundTrip32 ==
    mode = "32bit" =>
        /\ (0 <= num32[1] /\ num32[1] < 65536) => mpc # "ValueError"
        /\ mpc \in {"decrypt_32bit_int", "done"} =>
              /\ Len(ciphertext) = 32
              /\ \A k \in 1..32 :
                    decrypt_bit(ciphertext[k], private_key) = bit_of_weight(num32, k)
        /\ mpc = "done" => decrypted = num32

C9_TestNumberDecrypted ==
    /\ mode = "32bit" /\ mpc = "done"
    /\ num32 = <<1883, 52501>> /\ decrypted = <<1883, 52501>>
    /\ rtape[1] # rtape[2]

(***************************************************************************)
(* C10: for every odd n >= 1 and every integer a, jacobi_symbol(a, n) is   *)
(* the product, over the prime factors of n with multiplicity, of the      *)
(* Legendre symbol of a found by searching for a square root; for every    *)
(* odd prime p, legendre_symbol(a, p) is that Legendre symbol.             *)
(***************************************************************************)
\* the Legendre symbol by search: 0 when pr divides x, 1 when x is a square
\* modulo pr, -1 otherwise
legendre_by_search(x, pr) ==
    IF x % pr = 0 THEN 0
    ELSE IF \E y \in 1..(pr - 1) : (y * y - x) % pr = 0 THEN 1
    ELSE -1

least_prime_factor(m) ==
    CHOOSE d \in 2..m : m % d = 0 /\ \A e \in 2..(d - 1) : m % e # 0

RECURSIVE jacobi_by_factors(_, _)
jacobi_by_factors(x, m) ==
    IF m = 1 THEN 1
    ELSE legendre_by_search(x, least_prime_factor(m))
            * jacobi_by_factors(x, m \div least_prime_factor(m))

C10_SymbolsMatchReference ==
    mpc = "done" =>
        /\ mode = "jacobi_symbol" => sym_result = jacobi_by_factors(sym_a, sym_n)
        /\ mode = "legendre_symbol" =>
              /\ sym_result = legendre_by_search(sym_a, sym_n)
              /\ sym_result \in {-1, 0, 1}

C10_CompositeNonResidue ==
    /\ mode = "jacobi_symbol" /\ mpc = "done"
    /\ sym_n = 45 /\ sym_a = -38 /\ sym_result = -1

(***************************************************************************)
(* C11: in every round i of 0..15 the ciphertext E(t_i) that A builds      *)
(* decrypts to 1 iff a mod 2^(i+1) < b mod 2^(i+1), and r_prev is the mask *)
(* multiplied into the message B decrypts in that round.                   *)
(***************************************************************************)
C11_PrefixInvariant ==
    /\ pc = "A_round0" =>
          \A E_zero \in encryptions(0, public_key) :
             decrypt_bit(construct_E_t0(a_bits[1], E_zero, wire.E_b0), private_key)
                = prefix_less(a, b, 0)
    /\ pc = "A_round" =>
          \A E_one \in encryptions(1, public_key) :
             decrypt_bit(construct_E_ti(a_bits[i + 1], r_prev, wire.E_u0, wire.E_u1,
                                        wire.E_bi, E_one, public_key[1]),
                         private_key)
                = prefix_less(a, b, i)
    /\ pc = "B_round" =>
          decrypt_bit(current_M2, private_key)
             = xor(prefix_less(a, b, i - 1), r_prev)
    /\ pc \in {"B_final", "done"} =>
          decrypt_bit(final_cipher, private_key) = prefix_less(a, b, W - 1)

\* what does hold: the same with a key made of primes
PrefixInvariantForPrimeKeys ==
    (pc \in Sent /\ IsPrime(p) /\ IsPrime(q)) => C11_PrefixInvariant

(***************************************************************************)
(* C12: every value generate_large_prime_3mod4(bit_length) returns has     *)
(* exactly bit_length bits, so p and q each have key_size // 2 bits.       *)
(***************************************************************************)
C12_ExactBitLength ==
    /\ gpc = "got" => bit_length(num) = key_size \div 2
    /\ gpc = "returned" =>
          /\ bit_length(p) = key_size \div 2
          /\ bit_length(q) = key_size \div 2

\* what does hold: the value returned has at most bit_length bits
AtMostBitLength ==
    gpc = "got" => bit_length(num) <= key_size \div 2

(***************************************************************************)
(* C13: every value generate_large_prime_3mod4 returns is a prime          *)
(* congruent to 3 mod 4, whatever witnesses is_prime draws.                *)
(***************************************************************************)
C13_ReturnsPrime3mod4 ==
    gpc = "got" => IsPrime(num) /\ num % 4 = 3

\* what does hold: the value returned is congruent to 3 mod 4
Returns3mod4 ==
    gpc = "got" => num % 4 = 3

(***************************************************************************)
(* C14: the message indices are the consecutive integers 1..N, B's the odd *)
(* ones and A's the even ones; B's message of round i >= 1 comes after A's *)
(* message of round i-1 and uses the decryption of exactly that message;   *)
(* the result is decrypted only after A's last message, from that message. *)
(***************************************************************************)
C14_LockStep ==
    pc \in Sent =>
        /\ msg_index = Len(A_messages) + Len(B_messages)
        /\ \A k \in 1..Len(B_messages) : B_messages[k].index = 2 * k - 1
        /\ \A k \in 1..Len(A_messages) : A_messages[k].index = 2 * k
        /\ pc \in {"A_round0", "A_round"} => Len(B_messages) = Len(A_messages) + 1
        /\ pc \in {"B_round", "B_final", "done"} => Len(B_messages) = Len(A_messages)
        /\ pc = "A_round0" => Len(B_messages) = 1
        /\ pc = "B_round" =>
              /\ Len(A_messages) = i
              /\ current_M2 = (IF i = 1 THEN wire.M2 ELSE wire.M)
        /\ pc = "A_round" =>
              /\ Len(B_messages) = i + 1
              /\ s = decrypt_bit(current_M2, private_key)
        /\ pc \in {"B_final", "done"} =>
              /\ Len(A_messages) = W
              /\ A_messages[W].label = "E(t15)"
              /\ final_cipher = wire.E_t15
        /\ pc = "done" => t = decrypt_bit(wire.E_t15, private_key)

C14_AllMessagesInOrder ==
    /\ pc = "done"
    /\ A_messages[W].index = 2 * W
    /\ B_messages[W].index = 2 * W - 1
    /\ B_messages[1].label = "pk, E(b0)"

(***************************************************************************)
(* C15: in every round, the final one included, the ciphertext A sends has *)
(* among its factors at least one encryption A drew itself in that round;  *)
(* A never sends back E(u0), E(u1) or a product of B's ciphertexts only.   *)
(***************************************************************************)
C15_Rerandomized ==
    pc \in {"B_round", "A_round", "B_final", "done"} => fresh_factors >= 1

\* what does hold: every message of A but the final one is re-randomized,
\* and the final one is when a_15 = 0 and the last mask is 1
RerandomizedBeforeFinal ==
    /\ pc \in {"B_round", "A_round"} => fresh_factors >= 1
    /\ (pc \in {"B_final", "done"} /\ a_bits[W] = 0 /\ r_prev = 1) =>
          fresh_factors >= 1

(***************************************************************************)
(* C16: for every key_size >= 4, with a fair random module, generate_keys  *)
(* eventually returns a key pair.                                          *)
(***************************************************************************)
C16_EventuallyReturns == <>(gpc = "returned")

\* what does hold: generate_keys returns when there are two primes to draw
\* and none of the candidates is a composite that is_prime can accept
ReturnsFromKeySizeSix == (key_size >= 6) => <>(gpc = "returned")

\* with key_size 4 or 5 the one value generate_large_prime_3mod4 returns is
\* 3, and q is drawn again for ever
OnlyThreeBelowSix == (key_size < 6 /\ gpc = "got") => num = 3

====
